---- MODULE Spec2Model ----
(***************************************************************************)
(* Model of huggingface_Interface3.py: the device resolver, the logging    *)
(* and tokenizer-parallelism setters, the model loader and the two public  *)
(* entry points hgTransformerGetSentiment and hgTransformerGetEmbedding.   *)
(*                                                                         *)
(* Python strings that the code inspects character by character (device    *)
(* specifications, logging levels) are sequences of one-character strings. *)
(* The toolkit (tokenizer, sentence splitter, transformer, pipeline, CUDA  *)
(* runtime) is the environment: its documented behaviour is modelled by    *)
(* operators over small input sets.                                        *)
(***************************************************************************)
EXTENDS Integers, Sequences, FiniteSets, TLC

\* ------------------------------------------------------------------ bounds
\* largest number of CUDA devices the runtime reports
MaxDevices == 2
\* longest list of input strings passed to one call
MaxTexts == 2
\* number of transformer blocks; the model returns NumLayers + 1 hidden states
NumLayers == 2

\* ------------------------------------------------------- Python str helpers
LowerLetters ==
  <<"a","b","c","d","e","f","g","h","i","j","k","l","m",
    "n","o","p","q","r","s","t","u","v","w","x","y","z">>

UpperLetters ==
  <<"A","B","C","D","E","F","G","H","I","J","K","L","M",
    "N","O","P","Q","R","S","T","U","V","W","X","Y","Z">>

Digits == <<"0","1","2","3","4","5","6","7","8","9">>

LowerChar(c) ==
  IF \E i \in 1..26 : UpperLetters[i] = c
  THEN LowerLetters[CHOOSE i \in 1..26 : UpperLetters[i] = c]
  ELSE c

\* str.lower()
str_lower(s) == [i \in 1..Len(s) |-> LowerChar(s[i])]

\* str.startswith(p)
startswith(s, p) == Len(s) >= Len(p) /\ SubSeq(s, 1, Len(p)) = p

\* s.split(":")[-1]: what follows the last colon, the whole string without one
split_last(s) ==
  LET colons == {i \in 1..Len(s) : s[i] = ":"}
      last == IF colons = {} THEN 0
              ELSE CHOOSE i \in colons : \A j \in colons : j <= i
  IN SubSeq(s, last + 1, Len(s))

RECURSIVE lstrip(_)
lstrip(s) == IF s # <<>> /\ Head(s) = " " THEN lstrip(Tail(s)) ELSE s

RECURSIVE rstrip(_)
rstrip(s) ==
  IF s # <<>> /\ s[Len(s)] = " " THEN rstrip(SubSeq(s, 1, Len(s) - 1)) ELSE s

IsDigit(c) == \E i \in 1..10 : Digits[i] = c

DigitVal(c) == (CHOOSE i \in 1..10 : Digits[i] = c) - 1

RECURSIVE digits_value(_)
digits_value(s) ==
  IF s = <<>> THEN 0
  ELSE IF s[Len(s)] = "_" THEN digits_value(SubSeq(s, 1, Len(s) - 1))
  ELSE digits_value(SubSeq(s, 1, Len(s) - 1)) * 10 + DigitVal(s[Len(s)])

\* int(s): surrounding blanks stripped, an optional sign, then decimal digits
\* with single underscores allowed between digits.  ok = FALSE is ValueError.
py_int(s) ==
  LET t == rstrip(lstrip(s))
      signed == t # <<>> /\ Head(t) \in {"+", "-"}
      body == IF signed THEN Tail(t) ELSE t
      wellformed ==
        /\ body # <<>>
        /\ \A i \in 1..Len(body) :
             \/ IsDigit(body[i])
             \/ /\ body[i] = "_"
                /\ i > 1 /\ i < Len(body)
                /\ IsDigit(body[i - 1]) /\ IsDigit(body[i + 1])
      v == IF wellformed THEN digits_value(body) ELSE 0
  IN [ok |-> wellformed,
      val |-> IF signed /\ Head(t) = "-" THEN 0 - v ELSE v]

CPU == <<"c","p","u">>
GPU == <<"g","p","u">>
CUDA == <<"c","u","d","a">>

\* the prefix test of get_device, repeated verbatim in hgTransformerGetEmbedding
known_prefix(device) ==
  startswith(device, CPU) \/ startswith(device, GPU) \/ startswith(device, CUDA)

\* torch.cuda.is_available()
cuda_is_available(count) == count > 0

\* list(range(torch.cuda.device_count()))[0]; the empty list raises IndexError
first_device(count) == [ok |-> count > 0, val |-> 0]

\* get_device without the try/except around int(): a suffix that does not
\* parse escapes as ValueError
get_device_no_except(device, count) ==
  LET d0 == str_lower(device)
      d1 == IF ~known_prefix(d0) THEN CPU ELSE d0
      cpu == [device |-> CPU, device_num |-> 0 - 1, raised |-> FALSE]
  IN IF d1 = CPU THEN cpu
     ELSE IF cuda_is_available(count)
          THEN IF d1 = GPU \/ d1 = CUDA
               THEN LET f == first_device(count)
                    IN [device |-> d1, device_num |-> f.val, raised |-> ~f.ok]
               ELSE LET p == py_int(split_last(d1))
                    IN [device |-> d1, device_num |-> p.val, raised |-> ~p.ok]
          ELSE cpu

\* get_device returning the device kind alone (device.split(":")[0])
get_device_kind_only(device, count) ==
  LET d0 == str_lower(device)
      d1 == IF ~known_prefix(d0) THEN CPU ELSE d0
      colons == {i \in 1..Len(d1) : d1[i] = ":"}
      kind == IF colons = {} THEN d1
              ELSE SubSeq(d1, 1, (CHOOSE i \in colons : \A j \in colons : i <= j) - 1)
      cpu == [device |-> CPU, device_num |-> 0 - 1, raised |-> FALSE]
  IN IF d1 = CPU THEN cpu
     ELSE IF cuda_is_available(count)
          THEN IF d1 = GPU \/ d1 = CUDA
               THEN LET f == first_device(count)
                    IN [device |-> d1, device_num |-> f.val, raised |-> ~f.ok]
               ELSE LET p == py_int(split_last(d1))
                    IN IF p.ok
                       THEN [device |-> kind, device_num |-> p.val, raised |-> FALSE]
                       ELSE cpu
          ELSE cpu

\* ------------------------------------------------------------- get_device
get_device(device, count) ==
  LET d0 == str_lower(device)
      d1 == IF ~known_prefix(d0) THEN CPU ELSE d0
      cpu == [device |-> CPU, device_num |-> 0 - 1, raised |-> FALSE]
  IN IF d1 = CPU THEN cpu
     ELSE IF cuda_is_available(count)
          THEN IF d1 = GPU \/ d1 = CUDA
               THEN LET f == first_device(count)
                    IN [device |-> d1, device_num |-> f.val, raised |-> ~f.ok]
               ELSE LET p == py_int(split_last(d1))
                    IN IF p.ok
                       THEN [device |-> d1, device_num |-> p.val, raised |-> FALSE]
                       ELSE cpu
          ELSE cpu

\* ------------------------------------------------------ set_logging_level
L_critical == <<"c","r","i","t","i","c","a","l">>
L_error == <<"e","r","r","o","r">>
L_warning == <<"w","a","r","n","i","n","g">>
L_warn == <<"w","a","r","n">>
L_info == <<"i","n","f","o">>
L_debug == <<"d","e","b","u","g">>

\* transformers.utils.logging verbosity after set_logging_level(logging_level)
\* when it was `current` before
set_logging_level(logging_level, current) ==
  LET l == str_lower(logging_level)
  IN IF l \notin {L_warn, L_warning}
     THEN IF l = L_critical THEN "critical"
          ELSE IF l = L_error THEN "error"
          ELSE IF l = L_info THEN "info"
          ELSE IF l = L_debug THEN "debug"
          ELSE current
     ELSE current

\* os.environ["TOKENIZERS_PARALLELISM"] after set_tokenizer_parallelism
set_tokenizer_parallelism(tokenizer_parallelism) ==
  IF tokenizer_parallelism THEN "true" ELSE "false"

\* ---------------------------------------------------------------- get_model
\* A model identifier is the sequence of the pieces of its name, so that the
\* substring tests of get_model are tests on the pieces.
BertLargeUncased == <<"bert-large-uncased">>
RobertaBase == <<"roberta-base">>
MegatronCased == <<"nvidia/", "megatron-bert", "-cased", "-345m">>
MegatronUncased == <<"nvidia/", "megatron-bert", "-uncased", "-345m">>

\* "megatron-bert" in model
has_megatron(model) == \E i \in 1..Len(model) : model[i] = "megatron-bert"

\* "megatron-bert-cased" in model
has_megatron_cased(model) ==
  \E i \in 1..Len(model) :
    model[i] = "megatron-bert" /\ i < Len(model) /\ model[i + 1] = "-cased"

BertTokenizer(name) ==
  [name |-> name, cls |-> "[CLS]", sep |-> "[SEP]", pad |-> "[PAD]"]

\* AutoTokenizer.from_pretrained: the special tokens of the checkpoint's family
AutoTokenizer(model) ==
  IF model = RobertaBase
  THEN [name |-> model, cls |-> "<s>", sep |-> "</s>", pad |-> "<pad>"]
  ELSE BertTokenizer(model)

\* import_ok: whether `from transformers import MegatronBertForMaskedLM` works
get_model(model, import_ok) ==
  IF has_megatron(model)
  THEN IF ~import_ok
       THEN [exited |-> TRUE, tokenizer |-> BertTokenizer(<<>>)]
       ELSE [exited |-> FALSE,
             tokenizer |-> IF has_megatron_cased(model)
                           THEN BertTokenizer(MegatronCased)
                           ELSE BertTokenizer(MegatronUncased)]
  ELSE [exited |-> FALSE, tokenizer |-> AutoTokenizer(model)]

\* ------------------------------------------------------------ input strings
\* A text is the sequence of its sentences, a sentence the number of its
\* words: every word is one letter, words are separated by one blank, a
\* sentence ends with a full stop and sentences are joined by one blank.
Texts == {<<2>>, <<1, 2>>, <<4>>, <<1, 3>>}

RECURSIVE SumSeq(_)
SumSeq(s) == IF s = <<>> THEN 0 ELSE Head(s) + SumSeq(Tail(s))

\* len(text_string)
str_len(text) == SumSeq([i \in 1..Len(text) |-> 2 * text[i]]) + (Len(text) - 1)

SeqsUpTo(S, n) == UNION {[1..k -> S] : k \in 0..n}

\* text_strings: a list of strings, or one string that is not in a list
OneString(t) == [is_list |-> FALSE, list |-> <<>>, str |-> t]

ListOf(l) == [is_list |-> TRUE, list |-> l, str |-> <<>>]

TextArgs ==
  {ListOf(l) : l \in SeqsUpTo(Texts, MaxTexts)}
    \cup {OneString(t) : t \in Texts}

\* the coercion keeping the first element only (text_strings[:1])
as_list_first(text_strings) ==
  IF ~text_strings.is_list THEN <<text_strings.str>>
  ELSE IF text_strings.list = <<>> THEN <<>> ELSE <<text_strings.list[1]>>

\* if not isinstance(text_strings, list): text_strings = [text_strings]
as_list(text_strings) ==
  IF ~text_strings.is_list THEN <<text_strings.str>> ELSE text_strings.list

\* ------------------------------------------------ hgTransformerGetSentiment
\* the device argument with the test device_num >= 0
pipeline_device_nonneg(device_num) ==
  IF device_num >= 0 THEN [given |-> TRUE, index |-> device_num]
  ELSE [given |-> FALSE, index |-> 0]

\* the device argument handed to pipeline(...)
pipeline_device(device_num) ==
  IF device_num > 0 THEN [given |-> TRUE, index |-> device_num]
  ELSE [given |-> FALSE, index |-> 0]

\* the toolkit's pipeline: one {label, score} result for each element of the
\* list it is called with, here the element it was computed from
sentiment_pipeline(inputs) ==
  [i \in 1..Len(inputs) |-> [label |-> "LABEL", score_of |-> inputs[i]]]

hgTransformerGetSentiment(a, count, import_ok) ==
  LET dev == get_device(a.device, count)
      text_strings == as_list(a.text_strings)
      loaded == IF a.model # <<>> THEN get_model(a.model, import_ok)
                ELSE [exited |-> FALSE, tokenizer |-> BertTokenizer(<<>>)]
  IN IF dev.raised
     THEN [status |-> "raised", dev |-> dev]
     ELSE IF loaded.exited
     THEN [status |-> "exited", dev |-> dev]
     ELSE [status |-> "ok", dev |-> dev,
           pipeline_model |-> a.model,
           pipeline_tokenizer |-> IF a.model # <<>> THEN loaded.tokenizer.name
                                  ELSE <<>>,
           pipeline_device |-> pipeline_device(dev.device_num),
           pipeline_input |-> text_strings,
           sentiment_scores |-> sentiment_pipeline(text_strings)]

\* ------------------------------------------------- tokenizer and transformer
\* the tokens of one sentence of k words: its words, then the full stop
sentence_tokens(k) == [i \in 1..(k + 1) |-> IF i <= k THEN "a" ELSE "."]

RECURSIVE Flatten(_)
Flatten(ss) == IF ss = <<>> THEN <<>> ELSE Head(ss) \o Flatten(Tail(ss))

\* the vocabulary of a tokenizer; an id is the position of its token
vocab(tk) == <<tk.pad, tk.cls, tk.sep, "a", ".">>

token_id(tk, tok) == CHOOSE i \in 1..Len(vocab(tk)) : vocab(tk)[i] = tok

\* tokenizer.convert_ids_to_tokens(ids)
convert_ids_to_tokens(tk, ids) == [i \in 1..Len(ids) |-> vocab(tk)[ids[i]]]

\* tokenizer.encode(text_string, add_special_tokens=True)
encode(tk, text) ==
  LET toks == <<tk.cls>>
                \o Flatten([m \in 1..Len(text) |-> sentence_tokens(text[m])])
                \o <<tk.sep>>
  IN [i \in 1..Len(toks) |-> token_id(tk, toks[i])]

\* sent_tokenize(text_string)
sent_tokenize(text) == [m \in 1..Len(text) |-> <<text[m]>>]

SeqMax(s) == IF s = <<>> THEN 0
             ELSE LET i == CHOOSE i \in 1..Len(s) : \A j \in 1..Len(s) : s[j] <= s[i]
                  IN s[i]

\* tokenizer(sentence_batch, padding=True, truncation=True,
\*           add_special_tokens=True[, max_length=model_max_length]):
\* every sentence is cut to the maximum length, special tokens included, and
\* padded with the tokenizer's pad token to the longest row of the batch
batch_tokenize(tk, sentence_batch, model_max_length) ==
  LET row(m) ==
        LET body == sentence_tokens(sentence_batch[m][1])
            room == model_max_length.val - 2
            kept == IF model_max_length.given /\ Len(body) > room
                    THEN SubSeq(body, 1, room) ELSE body
        IN <<tk.cls>> \o kept \o <<tk.sep>>
      rows == [m \in 1..Len(sentence_batch) |-> row(m)]
      width == SeqMax([m \in 1..Len(rows) |-> Len(rows[m])])
  IN [input_ids |->
        [m \in 1..Len(rows) |->
           [i \in 1..width |-> IF i <= Len(rows[m])
                               THEN token_id(tk, rows[m][i])
                               ELSE token_id(tk, tk.pad)]],
      attention_mask |->
        [m \in 1..Len(rows) |->
           [i \in 1..width |-> IF i <= Len(rows[m]) THEN 1 ELSE 0]]]

\* transformer_model(input_ids, ...)[-1]: NumLayers + 1 hidden states, each
\* one vector for every position of every row of the batch
transformer_hidden_states(input_ids) ==
  [l \in 1..(NumLayers + 1) |->
     [m \in 1..Len(input_ids) |->
        [i \in 1..Len(input_ids[m]) |->
           [layer |-> l - 1, row |-> m, pos |-> i, id |-> input_ids[m][i]]]]]

\* Python's seq[i]: negative indices count from the end, others are IndexError
index_ok(n, i) == (0 - n) <= i /\ i < n

py_index(s, i) == IF i >= 0 THEN s[i + 1] ELSE s[Len(s) + i + 1]

\* ------------------------------------------------ hgTransformerGetEmbedding
AllLayers == [kind |-> "all", val |-> <<>>]

\* lines 248-251: a selector that is not 'all' becomes a list of integers
coerce_layers(layers) ==
  IF layers.kind # "all" THEN [kind |-> "list", val |-> layers.val] ELSE layers

\* the selection taking the k-th hidden state for the k-th listed index
select_layers_by_position(hidden_states, layers) ==
  IF layers.kind # "all"
  THEN [k \in 1..Len(layers.val) |-> py_index(hidden_states, k - 1)]
  ELSE hidden_states

\* hidden_states = [hidden_states[l] for l in layers]
select_layers(hidden_states, layers) ==
  IF layers.kind # "all"
  THEN [k \in 1..Len(layers.val) |-> py_index(hidden_states, layers.val[k])]
  ELSE hidden_states

layers_in_range(layers) ==
  layers.kind = "all"
    \/ \A k \in 1..Len(layers.val) : index_ok(NumLayers + 1, layers.val[k])

\* the threshold test with >= in place of >
too_long_inclusive(text, max_token_to_sentence) ==
  str_len(text) >= max_token_to_sentence * 4

\* len(text_string) > max_token_to_sentence*4
too_long(text, max_token_to_sentence) ==
  str_len(text) > max_token_to_sentence * 4

\* [token for token in ... if token != '[PAD]']
non_pad_tokens(tokens) == SelectSeq(tokens, LAMBDA token : token # "[PAD]")

\* the filter with attention_mask[m][ii] >= 0, which keeps the padding
unpadded_all(row, mask) ==
  LET idx == {ii \in 1..Len(row) : mask[ii] >= 0}
      ord(n) == CHOOSE ii \in idx : Cardinality({j \in idx : j < ii}) = n - 1
  IN [n \in 1..Cardinality(idx) |-> row[ord(n)]]

\* [tok for ii, tok in enumerate(row) if attention_mask[m][ii]>0]
unpadded(row, mask) ==
  LET idx == {ii \in 1..Len(row) : mask[ii] > 0}
      ord(n) == CHOOSE ii \in idx : Cardinality({j \in idx : j < ii}) = n - 1
  IN [n \in 1..Cardinality(idx) |-> row[ord(n)]]

\* lines 260-291: one long string, sentence by sentence
embed_sentences(tk, text, layers, model_max_length) ==
  LET sentence_batch == sent_tokenize(text)
      batch == batch_tokenize(tk, sentence_batch, model_max_length)
      input_ids == batch.input_ids
      attention_mask == batch.attention_mask
      tokens ==
        Flatten([m \in 1..Len(input_ids) |->
                   non_pad_tokens(convert_ids_to_tokens(tk, input_ids[m]))])
      hidden_states == select_layers(transformer_hidden_states(input_ids), layers)
      sent_embedding ==
        [l \in 1..Len(hidden_states) |->
           Flatten([m \in 1..Len(hidden_states[l]) |->
                      unpadded(hidden_states[l][m], attention_mask[m])])]
  IN [path |-> "sentences",
      width |-> IF input_ids = <<>> THEN 0 ELSE Len(input_ids[1]),
      attention_mask |-> attention_mask,
      emb |-> [l \in 1..Len(sent_embedding) |-> <<sent_embedding[l]>>],
      tokens |-> tokens]

\* lines 293-309: one string as a single sequence
embed_single(tk, text, layers) ==
  LET input_ids == encode(tk, text)
      tokens == convert_ids_to_tokens(tk, input_ids)
      hidden_states == select_layers(transformer_hidden_states(<<input_ids>>), layers)
  IN [path |-> "single",
      width |-> Len(input_ids),
      attention_mask |-> <<[i \in 1..Len(input_ids) |-> 1]>>,
      emb |-> hidden_states,
      tokens |-> tokens]

hgTransformerGetEmbedding(a, count, import_ok) ==
  LET dev1 == get_device(a.device, count)
      d0 == str_lower(dev1.device)
      d1 == IF ~known_prefix(d0) THEN CPU ELSE d0
      loaded == get_model(a.model, import_ok)
      tk == loaded.tokenizer
      dev2 == get_device(d1, count)
      text_strings == as_list(a.text_strings)
      layers == coerce_layers(a.layers)
      one(text) == IF too_long(text, a.max_token_to_sentence)
                   THEN embed_sentences(tk, text, layers, a.model_max_length)
                   ELSE embed_single(tk, text, layers)
      each == [j \in 1..Len(text_strings) |-> one(text_strings[j])]
  IN IF dev1.raised
     THEN [status |-> "raised", dev |-> dev1]
     ELSE IF loaded.exited
     THEN [status |-> "exited", dev |-> dev1]
     ELSE IF dev2.raised \/ (text_strings # <<>> /\ ~layers_in_range(layers))
     THEN [status |-> "raised", dev |-> dev1]
     ELSE [status |-> "ok", dev |-> dev1, dev2 |-> dev2,
           model_to |-> IF dev2.device # CPU
                        THEN [moved |-> TRUE, index |-> dev2.device_num]
                        ELSE [moved |-> FALSE, index |-> 0],
           path |-> [j \in 1..Len(each) |-> each[j].path],
           width |-> [j \in 1..Len(each) |-> each[j].width],
           attention_mask |-> [j \in 1..Len(each) |-> each[j].attention_mask],
           all_embs |-> [j \in 1..Len(each) |-> each[j].emb],
           returns_tokens |-> a.return_tokens,
           all_toks |-> IF a.return_tokens
                        THEN [j \in 1..Len(each) |-> each[j].tokens]
                        ELSE <<>>]

\* ------------------------------------------------------------ the inputs
DevicePrefixes == {<<>>, CPU, GPU, CUDA, <<"G","P","U">>, <<"C","u","d","a">>, <<"t","p","u">>}

DeviceSuffixes ==
  {<<>>, <<":","0">>, <<":","1">>, <<":","x">>, <<":">>, <<"1">>, <<":","-","1">>, <<":"," ","2"," ">>, <<":","1",":","0">>, <<":","1","_","0">>}

DeviceStrings == {p \o x : p \in DevicePrefixes, x \in DeviceSuffixes}

FewDevices == {CPU, GPU, <<"G","P","U",":","1">>, <<"c","p","u",":","0">>, <<"c","u","d","a",":","x">>}

LoggingLevels ==
  {L_critical, L_error, L_warning, L_warn, L_info, L_debug, <<"D","E","B","U","G">>, <<"v","e","r","b","o","s","e">>}

NoMaxLength == [given |-> FALSE, val |-> 0]

LayerArgs ==
  {AllLayers, [kind |-> "int", val |-> <<1>>]}
    \cup {[kind |-> "list", val |-> v] :
            v \in {<<>>, <<0>>, <<NumLayers, 0>>, <<0 - 1>>, <<0, 0>>,
                   <<NumLayers + 1>>}}

\* the calls of hgTransformerGetSentiment that are explored
SentimentCalls ==
  {[text_strings |-> ts, model |-> m, device |-> d,
    tokenizer_parallelism |-> FALSE, logging_level |-> L_warning] :
      ts \in TextArgs, m \in {<<>>, BertLargeUncased, MegatronUncased},
      d \in {CPU, GPU, <<"g","p","u",":","1">>}}
  \cup
  {[text_strings |-> OneString(<<2>>), model |-> <<>>,
    device |-> d, tokenizer_parallelism |-> tp, logging_level |-> ll] :
      d \in FewDevices, tp \in BOOLEAN, ll \in LoggingLevels}

\* the calls of hgTransformerGetEmbedding that are explored
EmbeddingCalls ==
  {[text_strings |-> ts, model |-> m, layers |-> AllLayers, return_tokens |-> rt,
    max_token_to_sentence |-> mts, device |-> CPU,
    tokenizer_parallelism |-> FALSE, model_max_length |-> NoMaxLength,
    logging_level |-> L_warning] :
      ts \in TextArgs, m \in {BertLargeUncased, RobertaBase},
      rt \in BOOLEAN, mts \in {1, 2}}
  \cup
  {[text_strings |-> ListOf(<<t>>), model |-> m,
    layers |-> ly, return_tokens |-> TRUE,
    max_token_to_sentence |-> mts, device |-> CPU,
    tokenizer_parallelism |-> FALSE, model_max_length |-> mml,
    logging_level |-> L_warning] :
      t \in Texts, m \in {BertLargeUncased, MegatronCased}, ly \in LayerArgs,
      mts \in {1, 4}, mml \in {NoMaxLength, [given |-> TRUE, val |-> 5]}}
  \cup
  {[text_strings |-> OneString(<<1, 2>>),
    model |-> BertLargeUncased, layers |-> AllLayers, return_tokens |-> TRUE,
    max_token_to_sentence |-> 4, device |-> d,
    tokenizer_parallelism |-> tp, model_max_length |-> NoMaxLength,
    logging_level |-> ll] :
      d \in FewDevices, tp \in BOOLEAN, ll \in LoggingLevels}

\* ------------------------------------------------------------ the process
VARIABLES
  device_count,   \* torch.cuda.device_count() of the machine
  verbosity,      \* the verbosity of transformers.utils.logging
  parallelism,    \* os.environ["TOKENIZERS_PARALLELISM"]
  pc,             \* "idle", or "returned" when a call has just ended
  call,           \* the function called last and its arguments
  ret             \* what that call returned

vars == <<device_count, verbosity, parallelism, pc, call, ret>>

Init ==
  /\ device_count \in 0..MaxDevices
  /\ verbosity = "warning"
  /\ parallelism = "unset"
  /\ pc = "idle"
  /\ call = [fn |-> "none"]
  /\ ret = [status |-> "none"]

CallGetDevice ==
  /\ pc = "idle"
  /\ \E d \in DeviceStrings :
       /\ call' = [fn |-> "get_device", device |-> d]
       /\ ret' = get_device(d, device_count)
  /\ pc' = "returned"
  /\ UNCHANGED <<device_count, verbosity, parallelism>>

CallGetSentiment ==
  /\ pc = "idle"
  /\ \E a \in SentimentCalls :
     \E import_ok \in IF has_megatron(a.model) THEN BOOLEAN ELSE {TRUE} :
       /\ call' = [fn |-> "hgTransformerGetSentiment", args |-> a]
       /\ verbosity' = set_logging_level(a.logging_level, verbosity)
       /\ parallelism' = set_tokenizer_parallelism(a.tokenizer_parallelism)
       /\ ret' = hgTransformerGetSentiment(a, device_count, import_ok)
  /\ pc' = "returned"
  /\ UNCHANGED device_count

CallGetEmbedding ==
  /\ pc = "idle"
  /\ \E a \in EmbeddingCalls :
     \E import_ok \in IF has_megatron(a.model) THEN BOOLEAN ELSE {TRUE} :
       /\ call' = [fn |-> "hgTransformerGetEmbedding", args |-> a]
       /\ verbosity' = set_logging_level(a.logging_level, verbosity)
       /\ parallelism' = set_tokenizer_parallelism(a.tokenizer_parallelism)
       /\ ret' = hgTransformerGetEmbedding(a, device_count, import_ok)
  /\ pc' = "returned"
  /\ UNCHANGED device_count

\* the caller takes the result; the process-wide settings stay as they are
Return ==
  /\ pc = "returned"
  /\ pc' = "idle"
  /\ call' = [fn |-> "none"]
  /\ ret' = [status |-> "none"]
  /\ UNCHANGED <<device_count, verbosity, parallelism>>

Next == CallGetDevice \/ CallGetSentiment \/ CallGetEmbedding \/ Return

Spec == Init /\ [][Next]_vars

\* ------------------------------------------------------------ properties
ReturnedFrom(fn) == pc = "returned" /\ call.fn = fn

ReturnedOk(fn) == ReturnedFrom(fn) /\ ret.status = "ok"

HasColon(d) == \E i \in 1..Len(d) : d[i] = ":"

\* a device specification that cannot be resolved: an unrecognized prefix, an
\* accelerator asked for where there is none, or an index suffix that is no
\* integer
Unresolvable(d, count) ==
  LET l == str_lower(d)
  IN \/ ~(startswith(l, CPU) \/ startswith(l, GPU) \/ startswith(l, CUDA))
     \/ (startswith(l, GPU) \/ startswith(l, CUDA)) /\ count = 0
     \/ HasColon(l) /\ ~py_int(split_last(l)).ok

\* C1: get_device never raises, returns a device string with an integer
\* index, and returns exactly ('cpu', -1) for every specification that cannot
\* be resolved.
C1_GetDeviceTotal ==
  ReturnedFrom("get_device") =>
    /\ ~ret.raised
    /\ ret.device_num \in Int
    /\ Len(ret.device) > 0
    /\ Unresolvable(call.device, device_count) =>
         ret.device = CPU /\ ret.device_num = 0 - 1

\* an accelerator is present and the index suffix of a gpu specification does
\* not parse: the result is ('cpu', -1)
C1_Witness ==
  /\ ReturnedFrom("get_device")
  /\ device_count > 0
  /\ startswith(str_lower(call.device), GPU)
  /\ HasColon(call.device)
  /\ ~py_int(split_last(call.device)).ok
  /\ ret.device = CPU /\ ret.device_num = 0 - 1 /\ ~ret.raised

\* C2: the index returned by get_device is -1 exactly when the result is CPU:
\* no input starting with 'cpu' returns another index, and no accelerator
\* result returns -1.
C2_IndexMinusOneIffCpu ==
  ReturnedFrom("get_device") =>
    /\ startswith(str_lower(call.device), CPU) => ret.device_num = 0 - 1
    /\ ret.device_num = 0 - 1 <=> startswith(ret.device, CPU)

\* C10: get_device is idempotent on its own output, and the second resolution
\* in hgTransformerGetEmbedding returns what the first returned.
C10_GetDeviceIdempotent ==
  /\ ReturnedFrom("get_device") =>
       get_device(ret.device, device_count) = ret
  /\ ReturnedOk("hgTransformerGetEmbedding") => ret.dev2 = ret.dev

\* an explicit accelerator index, written in upper case, resolved twice
C10_Witness ==
  /\ ReturnedOk("hgTransformerGetEmbedding")
  /\ call.args.device # str_lower(call.args.device)
  /\ ret.dev.device_num > 0
  /\ ret.dev2 = ret.dev

EmbReturned == ReturnedOk("hgTransformerGetEmbedding")

\* the strings of the last call, one by one
Inputs ==
  IF call.args.text_strings.is_list THEN call.args.text_strings.list
  ELSE <<call.args.text_strings.str>>

\* C3: with return_tokens, the token list of every input is as long as the
\* token dimension of every returned layer of that input, in both paths.
C3_TokensMatchEmbedding ==
  (EmbReturned /\ ret.returns_tokens) =>
    \A j \in 1..Len(ret.all_embs) :
      \A l \in 1..Len(ret.all_embs[j]) :
        Len(ret.all_toks[j]) = Len(ret.all_embs[j][l][1])

\* the number of positions of a batch that are not padding
NonPad(mask) ==
  SumSeq([m \in 1..Len(mask) |->
            Cardinality({i \in 1..Len(mask[m]) : mask[m][i] > 0})])

Unequal(mask) ==
  \E m, n \in 1..Len(mask) :
    Cardinality({i \in 1..Len(mask[m]) : mask[m][i] > 0})
      # Cardinality({i \in 1..Len(mask[n]) : mask[n][i] > 0})

\* the vectors are those of unmasked positions, sentence after sentence and
\* position after position
InSentenceOrder(vecs, mask) ==
  /\ \A n \in 1..Len(vecs) : mask[vecs[n].row][vecs[n].pos] > 0
  /\ \A n \in 1..(Len(vecs) - 1) :
       \/ vecs[n].row < vecs[n + 1].row
       \/ vecs[n].row = vecs[n + 1].row /\ vecs[n].pos < vecs[n + 1].pos

\* C4 as stated: for a string over the threshold every per-layer sequence
\* holds the non-padding positions of all sentences in sentence order, and is
\* shorter than the padded batch width when the sentences differ in length.
C4_ShorterThanBatchWidth ==
  EmbReturned =>
    \A j \in 1..Len(ret.all_embs) :
      ret.path[j] = "sentences" =>
        \A l \in 1..Len(ret.all_embs[j]) :
          /\ Len(ret.all_embs[j][l][1]) = NonPad(ret.attention_mask[j])
          /\ InSentenceOrder(ret.all_embs[j][l][1], ret.attention_mask[j])
          /\ Unequal(ret.attention_mask[j]) =>
               Len(ret.all_embs[j][l][1]) < ret.width[j]

\* C4 amended: for a string over the threshold every per-layer sequence holds
\* the non-padding positions of all sentences in sentence order, and is
\* shorter than the padded batch (number of sentences times batch width) when
\* the sentences differ in length.
C4_ShorterThanPaddedBatch ==
  EmbReturned =>
    \A j \in 1..Len(ret.all_embs) :
      ret.path[j] = "sentences" =>
        \A l \in 1..Len(ret.all_embs[j]) :
          /\ Len(ret.all_embs[j][l][1]) = NonPad(ret.attention_mask[j])
          /\ InSentenceOrder(ret.all_embs[j][l][1], ret.attention_mask[j])
          /\ Unequal(ret.attention_mask[j]) =>
               Len(ret.all_embs[j][l][1])
                 < Len(ret.attention_mask[j]) * ret.width[j]

\* a string over the threshold whose sentences differ in length, with at
\* least one layer returned
C4_Witness ==
  /\ EmbReturned
  /\ \E j \in 1..Len(ret.all_embs) :
       /\ ret.path[j] = "sentences"
       /\ Unequal(ret.attention_mask[j])
       /\ Len(ret.all_embs[j]) > 0
       /\ Len(ret.all_embs[j][1][1]) = NonPad(ret.attention_mask[j])
       /\ Len(ret.all_embs[j][1][1]) > ret.width[j]

\* the hidden-state layer a Python index names
LayerNamed(i) == IF i >= 0 THEN i ELSE NumLayers + 1 + i

\* the entry holds the vectors of the hidden state of that layer: all of them
\* for a single sequence, those that are not padding for a batch of sentences
FromLayer(entry, layer, path, mask) ==
  /\ Len(entry) = 1
  /\ Len(entry[1]) = NonPad(mask)
  /\ \A n \in 1..Len(entry[1]) : entry[1][n].layer = layer
  /\ InSentenceOrder(entry[1], mask)
  /\ path = "single" =>
       \A n \in 1..Len(entry[1]) : entry[1][n].row = 1 /\ entry[1][n].pos = n

C6_VerbosityFollowsLastCall ==
  (pc = "returned"
     /\ call.fn \in {"hgTransformerGetSentiment", "hgTransformerGetEmbedding"}) =>
    LET l == str_lower(call.args.logging_level)
    IN /\ l = L_critical => verbosity = "critical"
       /\ l = L_error => verbosity = "error"
       /\ l \in {L_warning, L_warn} => verbosity = "warning"
       /\ l = L_info => verbosity = "info"
       /\ l = L_debug => verbosity = "debug"

\* C7: hgTransformerGetSentiment hands the list it is given, or the one-element
\* list of the string it is given, to the pipeline and returns one result per
\* string, in input order.
C7_OneResultPerString ==
  ReturnedOk("hgTransformerGetSentiment") =>
    /\ ret.pipeline_input = Inputs
    /\ Len(ret.sentiment_scores) = Len(Inputs)
    /\ \A i \in 1..Len(Inputs) : ret.sentiment_scores[i].score_of = Inputs[i]

\* a list of two different strings gives two results, the second for the second
C7_Witness ==
  /\ ReturnedOk("hgTransformerGetSentiment")
  /\ call.args.text_strings.is_list
  /\ Len(Inputs) = 2 /\ Inputs[1] # Inputs[2]
  /\ Len(ret.sentiment_scores) = 2
  /\ ret.sentiment_scores[2].score_of = Inputs[2]

\* C8: the pipeline gets a device argument if and only if the index resolved
\* by get_device is greater than 0, with and without a model.
C8_DeviceOnlyAboveZero ==
  ReturnedOk("hgTransformerGetSentiment") =>
    /\ ret.pipeline_device.given <=> ret.dev.device_num > 0
    /\ ret.pipeline_device.given => ret.pipeline_device.index = ret.dev.device_num
    /\ ret.dev = get_device(call.args.device, device_count)

\* 'gpu' with an accelerator resolves to index 0 and no device is passed
C8_Witness ==
  /\ ReturnedOk("hgTransformerGetSentiment")
  /\ call.args.device = GPU
  /\ device_count > 0
  /\ call.args.model # <<>>
  /\ ret.dev.device_num = 0
  /\ ~ret.pipeline_device.given

\* C9: every string takes the sentence path exactly when its length is above
\* max_token_to_sentence * 4, whatever the other strings of the list do, and
\* contributes one entry, in input order.
C9_PathPerString ==
  EmbReturned =>
    /\ Len(ret.all_embs) = Len(Inputs)
    /\ ret.returns_tokens => Len(ret.all_toks) = Len(Inputs)
    /\ \A j \in 1..Len(Inputs) :
         LET split == str_len(Inputs[j]) > call.args.max_token_to_sentence * 4
             rows == IF split THEN Len(Inputs[j]) ELSE 1
         IN /\ ret.path[j] = "sentences" <=> split
            /\ Len(ret.all_embs[j]) > 0 =>
                 /\ Cardinality({n \in 1..Len(ret.all_embs[j][1][1]) :
                                   ret.all_embs[j][1][1][n].pos = 1}) = rows
                 /\ ~call.args.model_max_length.given =>
                      Len(ret.all_embs[j][1][1])
                        = SumSeq(Inputs[j]) + Len(Inputs[j]) + 2 * rows

\* a list of a string exactly at the threshold and a string above it
C9_Witness ==
  /\ EmbReturned
  /\ Len(Inputs) = 2
  /\ str_len(Inputs[1]) = call.args.max_token_to_sentence * 4
  /\ ret.path = <<"single", "sentences">>
  /\ Len(Inputs[2]) > 1

====
